---- MODULE Spec2Model ----
(***************************************************************************)
(* Model of the next-cache-handler storage layer:                          *)
(*   - S3Cache      (packages/s3-cache/src/index.ts, the later class)      *)
(*   - RedisCache   (key-value backend facade)                             *)
(*   - CacheHandler (key builder, staleness policy, get/set orchestration) *)
(*                                                                         *)
(* Strings are modelled as sequences of symbols.  A symbol is either one   *)
(* character ("/", ".", ",", "=", "&", "-", "(", ")", "p", "m", ...) or    *)
(* one of the fixed literals of the source ("json", "html", "rsc",         *)
(* "revalidateTag", "_N_T_", "cookie", "query"); the inputs are drawn from *)
(* alphabets that never spell a literal, so endsWith / startsWith / split  *)
(* on symbol sequences agree with the same operations on the characters.   *)
(***************************************************************************)
EXTENDS Integers, Sequences, FiniteSets, TLC

VARIABLES
  objects,   \* S3 bucket: key -> [Body, ContentType, TagSet, by]
  records,   \* key-value store: address -> entry
  pre,       \* bucket contents when the last delete or invalidation began (history)
  last,      \* the last operation, its arguments and its outcome (history)
  ops,       \* number of operations performed so far
  statics,   \* CacheHandler.cacheCookies / cacheQueries / enableDeviceSplit
  handler,   \* the CacheHandler instance: cookieCacheKey, queryCacheKey, device
  cache,     \* CacheHandler.cache, the selected strategy: key -> stored entry
  now,       \* Date.now(), in milliseconds
  call       \* the call in progress, when its store requests are separate steps

vars == <<objects, records, pre, last, ops, statics, handler, cache, now, call>>
storeVars == <<objects, records, pre>>
handlerVars == <<statics, handler, cache, now>>

\* ------------------------------------------------------------------ bounds
MaxOps == 3        \* operations per behaviour
MaxKeys == 2       \* keys per listing page (the store's page size)
CHUNK_LIMIT == 2   \* keys per batch delete (1000 in the source, scaled down)

\* ------------------------------------------------------------ string tools
EndsWith(s, t) ==
  /\ Len(t) <= Len(s)
  /\ SubSeq(s, Len(s) - Len(t) + 1, Len(s)) = t

StartsWith(s, t) ==
  /\ Len(t) <= Len(s)
  /\ SubSeq(s, 1, Len(t)) = t

\* index of the first occurrence of symbol c in s, 0 when there is none
RECURSIVE IndexOf(_, _, _)
IndexOf(s, c, i) ==
  IF i > Len(s) THEN 0
  ELSE IF s[i] = c THEN i
  ELSE IndexOf(s, c, i + 1)

\* String.prototype.split(sep) for a one-symbol separator
RECURSIVE Split(_, _)
Split(s, sep) ==
  LET i == IndexOf(s, sep, 1) IN
    IF i = 0 THEN <<s>>
    ELSE <<SubSeq(s, 1, i - 1)>> \o Split(SubSeq(s, i + 1, Len(s)), sep)

\* Array.prototype.join(sep)
RECURSIVE Join(_, _)
Join(parts, sep) ==
  IF Len(parts) = 0 THEN <<>>
  ELSE IF Len(parts) = 1 THEN parts[1]
  ELSE parts[1] \o <<sep>> \o Join(Tail(parts), sep)

Range(s) == {s[i] : i \in DOMAIN s}

\* decimal rendering of a small array index
ToStr(i) == <<"0", "1", "2", "3", "4", "5", "6", "7", "8", "9">>[i + 1]

\* character code of the first character of a symbol (byte order of keys)
Code(c) ==
  CASE c = "&" -> 38
    [] c = "(" -> 40
    [] c = ")" -> 41
    [] c = "," -> 44
    [] c = "-" -> 45
    [] c = "." -> 46
    [] c = "/" -> 47
    [] c = "=" -> 61
    [] c = "_N_T_" -> 95
    [] c = "html" -> 104
    [] c = "json" -> 106
    [] c = "m" -> 109
    [] c = "p" -> 112
    [] c = "q" -> 113
    [] c = "rsc" -> 114
    [] c = "t" -> 116
    [] c = "u" -> 117
    [] c = "x" -> 120
    [] OTHER -> 0

\* s sorts strictly before t in the store's (byte-wise) key order
RECURSIVE KeyLess(_, _)
KeyLess(s, t) ==
  IF Len(t) = 0 THEN FALSE
  ELSE IF Len(s) = 0 THEN TRUE
  ELSE IF Code(s[1]) # Code(t[1]) THEN Code(s[1]) < Code(t[1])
  ELSE KeyLess(Tail(s), Tail(t))

\* the keys of S in key order
InsertKey(sorted, x) ==
  LET n == Cardinality({i \in DOMAIN sorted : KeyLess(sorted[i], x)})
  IN SubSeq(sorted, 1, n) \o <<x>> \o SubSeq(sorted, n + 1, Len(sorted))

RECURSIVE SortKeys(_)
SortKeys(S) ==
  IF S = {} THEN <<>>
  ELSE CHOOSE sorted \in {InsertKey(rest, x) : x \in {CHOOSE y \in S : TRUE},
                                               rest \in {SortKeys(S \ {CHOOSE y \in S : TRUE})}} :
         TRUE

Min(a, b) == IF a < b THEN a ELSE b

\* --------------------------------------------------------- S3Cache (index.ts)
TAG_PREFIX == <<"revalidateTag">>
NEXT_CACHE_IMPLICIT_TAG_ID == <<"_N_T_">>
CacheExtension == [JSON |-> <<"json">>, HTML |-> <<"html">>, RSC |-> <<"rsc">>]
PAGE_CACHE_EXTENSIONS == <<CacheExtension.JSON, CacheExtension.HTML, CacheExtension.RSC>>

NoEntry == <<>>          \* null result of a get
NoToken == <<>>          \* undefined continuation token

\* S3 side of putObject: the Tagging query string becomes the object's TagSet
ParseTagging(tagging) ==
  IF tagging = <<>> THEN <<>>
  ELSE LET parts == Split(tagging, "&")
       IN [i \in DOMAIN parts |->
             LET eq == IndexOf(parts[i], "=", 1)
             IN [Key |-> SubSeq(parts[i], 1, eq - 1),
                 Value |-> SubSeq(parts[i], eq + 1, Len(parts[i]))]]

\* S3 listObjectsV2: one page of keys in key order, strictly after the token
ListObjectsV2(objs, token, prefix, delimited) ==
  LET matching == {k \in DOMAIN objs :
                     /\ StartsWith(k, prefix)
                     /\ delimited =>
                          IndexOf(SubSeq(k, Len(prefix) + 1, Len(k)), "/", 1) = 0
                     /\ token # NoToken => KeyLess(token, k)}
      Page(sorted) ==
        [Contents |-> SubSeq(sorted, 1, Min(MaxKeys, Len(sorted))),
         NextContinuationToken |->
           IF Len(sorted) > MaxKeys THEN sorted[MaxKeys] ELSE NoToken]
  IN CHOOSE page \in {Page(sorted) : sorted \in {SortKeys(matching)}} : TRUE

\* chunkArray of the common package: consecutive slices of at most size items
RECURSIVE chunkArray(_, _)
chunkArray(array, size) ==
  IF Len(array) = 0 THEN <<>>
  ELSE <<SubSeq(array, 1, Min(size, Len(array)))>>
         \o chunkArray(SubSeq(array, Min(size, Len(array)) + 1, Len(array)), size)

\* buildTagKeys without the split of a header string
buildTagKeysUnsplit(tags, isArray) ==
  IF Len(tags) = 0 THEN <<>>
  ELSE LET list == IF isArray THEN tags ELSE <<tags>>
       IN Join([i \in DOMAIN list |-> TAG_PREFIX \o <<ToStr(i - 1), "=">> \o list[i]], "&")

\* buildTagKeys: tags is the header string (isArray = FALSE) or the tags array
buildTagKeys(tags, isArray) ==
  IF Len(tags) = 0 THEN <<>>
  ELSE LET list == IF isArray THEN tags ELSE Split(tags, ",")
       IN Join([i \in DOMAIN list |-> TAG_PREFIX \o <<ToStr(i - 1), "=">> \o list[i]], "&")

\* key.replace(/\.(json|html)$/, '')
StripJsonHtml(key) ==
  IF EndsWith(key, <<".", "json">>) \/ EndsWith(key, <<".", "html">>)
    THEN SubSeq(key, 1, Len(key) - 2)
    ELSE key

\* allowCacheKeys.some((allowKey) => key.replace(...).endsWith(allowKey))
MatchesAllowKey(key, allowCacheKeys) ==
  \E i \in DOMAIN allowCacheKeys : EndsWith(StripJsonHtml(key), allowCacheKeys[i])

\* deleteObjects with Promise.all in place of Promise.allSettled
deleteObjectsPromiseAll(objs, keysToDelete, failed) ==
  LET chunks == chunkArray(keysToDelete, CHUNK_LIMIT)
      gone == UNION {Range(chunks[i]) : i \in DOMAIN chunks \ failed}
  IN [objects |-> [k \in DOMAIN objs \ gone |-> objs[k]],
      rejected |-> failed \cap DOMAIN chunks # {}]

\* deleteObjects: every chunk is issued; Promise.allSettled swallows rejections.
\* failed is the set of chunk indexes whose batch delete the store rejects.
deleteObjects(objs, keysToDelete, failed) ==
  LET chunks == chunkArray(keysToDelete, CHUNK_LIMIT)
      gone == UNION {Range(chunks[i]) : i \in DOMAIN chunks \ failed}
  IN [objects |-> [k \in DOMAIN objs \ gone |-> objs[k]],
      rejected |-> FALSE]

\* get: the parsed .json object, null when the store has no such key
S3Get(objs, pageKey, cacheKey) ==
  LET key == pageKey \o <<"/">> \o cacheKey \o <<".">> \o CacheExtension.JSON
  IN IF key \in DOMAIN objs THEN <<objs[key].Body.json>> ELSE NoEntry

\* S3 getObject: the store's response for key.  fault is "none" when the store
\* answers from its contents, "NoBody" for a response without Body, and the
\* error name otherwise; a key the bucket does not hold is error NoSuchKey
S3GetObject(objs, key, fault) ==
  IF fault = "none"
    THEN IF key \in DOMAIN objs
           THEN [error |-> "", Body |-> <<objs[key].Body>>]
           ELSE [error |-> "NoSuchKey", Body |-> <<>>]
    ELSE IF fault = "NoBody" THEN [error |-> "", Body |-> <<>>]
    ELSE [error |-> fault, Body |-> <<>>]

NOT_FOUND_ERROR == {"NotFound", "NoSuchKey"}

\* get that turns every store error into null
S3GetCallSwallowing(response) ==
  IF response.error # "" THEN [result |-> NoEntry, thrown |-> ""]
  ELSE IF response.Body = <<>> THEN [result |-> NoEntry, thrown |-> ""]
  ELSE [result |-> <<response.Body[1].json>>, thrown |-> ""]

\* get, from the response of getObject on: the catch, the Body test, the parse
S3GetCall(response) ==
  IF response.error \in NOT_FOUND_ERROR THEN [result |-> NoEntry, thrown |-> ""]
  ELSE IF response.error # "" THEN [result |-> NoEntry, thrown |-> response.error]
  ELSE IF response.Body = <<>> THEN [result |-> NoEntry, thrown |-> ""]
  ELSE [result |-> <<response.Body[1].json>>, thrown |-> ""]

\* set with an .rsc object for every PAGE entry
S3SetPutsRscAlways(pageKey, cacheKey, data, ctx) ==
  LET baseKey == pageKey \o <<"/">> \o cacheKey
      by == [pageKey |-> pageKey, cacheKey |-> cacheKey, data |-> data]
      tagging == IF data.kind \in {"PAGE", "ROUTE"}
                   THEN buildTagKeys(data.headers, FALSE)
                   ELSE buildTagKeys(data.tags, TRUE)
      Obj(ext, body, type) ==
        (baseKey \o <<".">> \o ext)
          :> [Body |-> body, ContentType |-> type, TagSet |-> ParseTagging(tagging), by |-> by]
      json == Obj(CacheExtension.JSON, [json |-> data], "application/json")
  IN IF data.kind = "PAGE"
       THEN Obj(CacheExtension.HTML, [html |-> data.html], "text/html")
              @@ Obj(CacheExtension.RSC, [rsc |-> data.pageData], "text/x-component") @@ json
       ELSE json

\* Promise.allSettled in place of Promise.all at the end of set
PromiseAllSettled(pending, failedPuts) ==
  IF pending = {} THEN "resolved" ELSE "pending"

\* set: await Promise.all(promises), from the requests still pending and the
\* requests the store rejected
PromiseAll(pending, failedPuts) ==
  IF failedPuts # {} THEN "rejected"
  ELSE IF pending = {} THEN "resolved"
  ELSE "pending"

\* set: the putObject calls collected in promises, as key -> stored object
S3SetPuts(pageKey, cacheKey, data, ctx) ==
  LET baseKey == pageKey \o <<"/">> \o cacheKey
      by == [pageKey |-> pageKey, cacheKey |-> cacheKey, data |-> data]
      headersTags == buildTagKeys(data.headers, FALSE)
      Obj(body, type, tagging) ==
        [Body |-> body, ContentType |-> type, TagSet |-> ParseTagging(tagging), by |-> by]
      html == (baseKey \o <<".">> \o CacheExtension.HTML)
                :> Obj([html |-> data.html], "text/html", headersTags)
      rsc == (baseKey \o <<".">> \o CacheExtension.RSC)
                :> Obj([rsc |-> data.pageData], "text/x-component", headersTags)
      json == (baseKey \o <<".">> \o CacheExtension.JSON)
                :> Obj([json |-> data], "application/json", headersTags)
      other == (baseKey \o <<".">> \o CacheExtension.JSON)
                :> Obj([json |-> data], "application/json",
                       IF Len(data.tags) > 0 THEN buildTagKeys(data.tags, TRUE) ELSE <<>>)
  IN IF data.kind \in {"PAGE", "ROUTE"}
       THEN IF data.kind = "PAGE"
              THEN IF ctx.isAppRouter THEN html @@ rsc @@ json ELSE html @@ json
              ELSE json
       ELSE other

\* revalidateTag: the keys one listing page contributes to keysToDelete
TagMatches(objs, contents, tag, allowCacheKeys) ==
  SelectSeq(contents,
    LAMBDA key :
      /\ ~(Len(key) = 0 \/ (Len(allowCacheKeys) # 0 /\ MatchesAllowKey(key, allowCacheKeys)))
      /\ LET TagSet == objs[key].TagSet
             tags == {TagSet[i].Value : i \in {j \in DOMAIN TagSet : StartsWith(TagSet[j].Key, TAG_PREFIX)}}
         IN tag \in tags)

\* revalidateTag: the do/while over the listing pages of the whole bucket
RECURSIVE RevalidateScan(_, _, _, _, _)
RevalidateScan(objs, token, keysToDelete, tag, allowCacheKeys) ==
  LET page == ListObjectsV2(objs, token, <<>>, FALSE)
      acc == keysToDelete \o TagMatches(objs, page.Contents, tag, allowCacheKeys)
  IN IF page.NextContinuationToken # NoToken
       THEN RevalidateScan(objs, page.NextContinuationToken, acc, tag, allowCacheKeys)
       ELSE acc

revalidateTagKeys(objs, tag, allowCacheKeys) ==
  RevalidateScan(objs, NoToken, <<>>, tag, allowCacheKeys)

\* deleteAllByKeyMatch: the do/while over the listing pages under pageKey/
RECURSIVE PathScan(_, _, _, _)
PathScan(objs, token, keysToDelete, pageKey) ==
  LET page == ListObjectsV2(objs, token, pageKey \o <<"/">>, TRUE)
      acc == keysToDelete \o
               SelectSeq(page.Contents,
                 LAMBDA key : \E i \in DOMAIN PAGE_CACHE_EXTENSIONS :
                                EndsWith(key, PAGE_CACHE_EXTENSIONS[i]))
  IN IF page.NextContinuationToken # NoToken
       THEN PathScan(objs, page.NextContinuationToken, acc, pageKey)
       ELSE acc

\* deleteAllByKeyMatch: the argument of the final deleteObjects call
deleteAllByKeyMatchKeys(objs, pageKey, allowCacheKeys) ==
  LET keysToDelete == PathScan(objs, NoToken, <<>>, pageKey)
  IN IF Len(allowCacheKeys) # 0
       THEN SelectSeq(keysToDelete, LAMBDA key : MatchesAllowKey(key, allowCacheKeys))
       ELSE keysToDelete

\* delete: one batch delete of the three extension keys
S3DeleteKeys(pageKey, cacheKey) ==
  [i \in DOMAIN PAGE_CACHE_EXTENSIONS |->
     pageKey \o <<"/">> \o cacheKey \o <<".">> \o PAGE_CACHE_EXTENSIONS[i]]

\* delete that leaves the .json object in place
S3DeleteRenderedOnly(objs, pageKey, cacheKey, storeError) ==
  LET keys == {pageKey \o <<"/">> \o cacheKey \o <<".">> \o ext :
                 ext \in {CacheExtension.HTML, CacheExtension.RSC}}
  IN [objects |-> IF storeError THEN objs ELSE [k \in DOMAIN objs \ keys |-> objs[k]],
      rejected |-> storeError]

\* delete: keys the store does not hold are no error of the batch delete; a
\* rejected request (storeError) is not caught and rejects the call
S3DeleteCall(objs, pageKey, cacheKey, storeError) ==
  LET keys == Range(S3DeleteKeys(pageKey, cacheKey))
  IN [objects |-> IF storeError THEN objs ELSE [k \in DOMAIN objs \ keys |-> objs[k]],
      rejected |-> storeError]

\* the do/while of revalidateTag and deleteAllByKeyMatch left after one page
LoopAgainNever(nextContinuationToken) == FALSE

\* while (nextContinuationToken)
LoopAgain(nextContinuationToken) == nextContinuationToken # NoToken

\* tags.includes(tag) that holds for every object
TagIncludesAlways(TagSet, tag) == TRUE

\* revalidateTag: tags.includes(tag) on the TagSet getObjectTagging returned
TagIncludes(TagSet, tag) ==
  tag \in {TagSet[i].Value : i \in {j \in DOMAIN TagSet : StartsWith(TagSet[j].Key, TAG_PREFIX)}}

\* revalidateTag: the keys of a listing page that are not skipped before
\* getObjectTagging, as indexes into the page
TaggingCandidates(contents, allowCacheKeys) ==
  {i \in DOMAIN contents :
     ~(Len(contents[i]) = 0
         \/ (Len(allowCacheKeys) # 0 /\ MatchesAllowKey(contents[i], allowCacheKeys)))}

\* deleteAllByKeyMatch: the keys one listing page contributes to keysToDelete
PathMatches(contents) ==
  SelectSeq(contents,
    LAMBDA key : \E i \in DOMAIN PAGE_CACHE_EXTENSIONS : EndsWith(key, PAGE_CACHE_EXTENSIONS[i]))

\* the argument of deleteObjects at the end of either call
FinalKeys(c) ==
  IF c.op = "deleteAllByKeyMatch" /\ Len(c.allowCacheKeys) # 0
    THEN SelectSeq(c.keysToDelete, LAMBDA key : MatchesAllowKey(key, c.allowCacheKeys))
    ELSE c.keysToDelete

\* the elements of list at the indexes of idx, in list order
Pick(list, idx) ==
  LET F[i \in 0..Len(list)] ==
        IF i = 0 THEN <<>>
        ELSE IF i \in idx THEN Append(F[i - 1], list[i]) ELSE F[i - 1]
  IN F[Len(list)]

\* the call once a listing page has been processed: the next listing request
\* while there is a continuation token, else deleteObjects, which issues one
\* batch delete request per chunk at once
AfterPage(c) ==
  IF LoopAgain(c.nextContinuationToken)
    THEN [c EXCEPT !.pc = "list"]
    ELSE LET chunks == chunkArray(FinalKeys(c), CHUNK_LIMIT)
         IN [c EXCEPT !.pc = IF Len(chunks) = 0 THEN "done" ELSE "delete",
                      !.chunks = chunks,
                      !.pendingChunks = DOMAIN chunks,
                      !.log = @ \o [i \in DOMAIN chunks |-> [req |-> "delete", next |-> NoToken]]]

\* ------------------------------------------------------ RedisCache (facade)
\* the single-record address `${pageKey}//${cacheKey}`
RedisAddress(pageKey, cacheKey) == pageKey \o <<"/", "/">> \o cacheKey

\* adapter get / set: the record held at the single-record address
RedisGet(recs, pageKey, cacheKey) ==
  IF RedisAddress(pageKey, cacheKey) \in DOMAIN recs
    THEN <<recs[RedisAddress(pageKey, cacheKey)]>>
    ELSE NoEntry

RedisSetCall(recs, pageKey, cacheKey, data) ==
  (RedisAddress(pageKey, cacheKey) :> data) @@ recs

\* delete: unlink of the single-record address; unlinking a missing key is no error
RedisDeleteCall(recs, pageKey, cacheKey, storeError) ==
  [records |-> IF storeError THEN recs
               ELSE [a \in DOMAIN recs \ {RedisAddress(pageKey, cacheKey)} |-> recs[a]],
   rejected |-> storeError]

\* the scan loop of deleteAllByKeyMatch that never ends
RedisScanAgainAlways(cursor) == TRUE

\* deleteAllByKeyMatch: while (cursor != 0)
RedisScanAgain(cursor) == cursor # 0

\* the final unlink issued whatever was found
RedisUnlinkAlways(keysToDelete) == TRUE

\* deleteAllByKeyMatch: if (keysToDelete.length)
RedisUnlinkNeeded(keysToDelete) == Len(keysToDelete) # 0

\* deleteAllByKeyMatch: the MATCH pattern of the scan
RedisMatchPattern(key) == key \o <<"/", "/", "*">>

\* store side of SCAN: the addresses a pattern that ends with * selects
RedisMatching(recs, pattern) ==
  {a \in DOMAIN recs : StartsWith(a, SubSeq(pattern, 1, Len(pattern) - 1))}

\* store side of UNLINK: the listed addresses are gone, missing ones ignored
RedisUnlink(recs, keys) == [a \in DOMAIN recs \ Range(keys) |-> recs[a]]

\* ----------------------------------------------------------- CacheHandler
\* a name -> value mapping gives no truthy value for name (absent, or '')
Falsy(data, name) == name \notin DOMAIN data \/ data[name] = <<>>

\* the reduce of buildCacheKey, prev being the accumulator
RECURSIVE ReduceKeys(_, _, _)
ReduceKeys(keys, data, prev) ==
  IF Len(keys) = 0 THEN prev
  ELSE LET curr == Head(keys)
       IN ReduceKeys(Tail(keys), data,
            IF Falsy(data, curr) THEN prev
            ELSE (IF prev # <<>> THEN <<"-">> ELSE <<>>) \o <<curr, "=">> \o data[curr])

buildCacheKey(keys, data, prefix) ==
  IF Len(keys) = 0 THEN <<>>
  ELSE LET cacheKey == ReduceKeys(keys, data, <<>>)
       IN IF cacheKey = <<>> THEN <<>>
          ELSE <<prefix, "(">> \o cacheKey \o <<")">>

\* buildCookiesCacheKey that reads the cookies a and b whatever the allow-list
buildCookiesCacheKeyAnyName(cacheCookies, parsedCookies) ==
  buildCacheKey(<<"a", "b">>, parsedCookies, "cookie")

\* buildCookiesCacheKey, on the mapping cookieParser.parse returns
buildCookiesCacheKey(cacheCookies, parsedCookies) ==
  buildCacheKey(cacheCookies, parsedCookies, "cookie")

\* buildQueryCacheKey: query is [present, parsable, parsed] for the
\* x-invoke-query header and the outcome of JSON.parse(decodeURIComponent(..))
buildQueryCacheKey(cacheQueries, query) ==
  IF ~query.present THEN <<>>
  ELSE IF ~query.parsable THEN <<>>
  ELSE buildCacheKey(cacheQueries, query.parsed, "query")

\* the array filter(Boolean) keeps: the non-empty strings
RECURSIVE FilterBoolean(_)
FilterBoolean(parts) ==
  IF Len(parts) = 0 THEN <<>>
  ELSE (IF Head(parts) = <<>> THEN <<>> ELSE <<Head(parts)>>) \o FilterBoolean(Tail(parts))

\* getPageCacheKey without filter(Boolean)
getPageCacheKeyUnfiltered(h, key) ==
  Join(<<key, h.device, h.cookieCacheKey, h.queryCacheKey>>, "-")

\* getPageCacheKey; an undefined device is the empty string here
getPageCacheKey(h, key) ==
  Join(FilterBoolean(<<key, h.device, h.cookieCacheKey, h.queryCacheKey>>), "-")

NoRevalidate == <<>>     \* an entry without revalidate

\* checkIsStaleCache, pageData being [] for null and [data] otherwise
checkIsStaleCache(pageData, time) ==
  IF /\ pageData # NoEntry
     /\ pageData[1].revalidate # NoRevalidate
     /\ pageData[1].revalidate[1] # 0
    THEN time > pageData[1].lastModified + pageData[1].revalidate[1] * 1000
    ELSE FALSE

\* the selected strategy's get and set
StrategyGet(store, key) == IF key \in DOMAIN store THEN <<store[key]>> ELSE NoEntry
StrategySet(store, key, data) == (key :> data) @@ store

\* CacheHandler.get that deletes the entry it finds stale
CacheHandlerGetEvicting(store, h, key, time) ==
  LET data == StrategyGet(store, getPageCacheKey(h, key))
      isStaleData == checkIsStaleCache(data, time)
  IN [data |-> data,
      isStaleData |-> isStaleData,
      result |-> IF isStaleData \/ data = NoEntry THEN NoEntry ELSE data,
      cache |-> IF isStaleData
                  THEN [k \in DOMAIN store \ {getPageCacheKey(h, key)} |-> store[k]]
                  ELSE store]

\* CacheHandler.get: what the strategy returned, the staleness verdict, the
\* value returned to the caller and the strategy's contents afterwards
CacheHandlerGet(store, h, key, time) ==
  LET data == StrategyGet(store, getPageCacheKey(h, key))
      isStaleData == checkIsStaleCache(data, time)
  IN [data |-> data,
      isStaleData |-> isStaleData,
      result |-> IF isStaleData \/ data = NoEntry THEN NoEntry ELSE data,
      cache |-> store]

\* CacheHandler.set
CacheHandlerSet(store, h, cacheKey, data) ==
  StrategySet(store, getPageCacheKey(h, cacheKey), data)

\* constructor; ua is the device type the user-agent parser reports
Construct(st, parsedCookies, query, ua) ==
  [constructed |-> TRUE,
   cookieCacheKey |-> buildCookiesCacheKey(st.cacheCookies, parsedCookies),
   queryCacheKey |-> buildQueryCacheKey(st.cacheQueries, query),
   device |-> IF st.enableDeviceSplit THEN ua ELSE <<>>]

NoHandler ==
  [constructed |-> FALSE, cookieCacheKey |-> <<>>, queryCacheKey |-> <<>>, device |-> <<>>]

\* ------------------------------------------------------------------ inputs
PageKeys == {<<"p">>, <<"p", "/", "q">>}
CacheKeys == {<<"m">>, <<"x", "m">>}
HeaderValues == {<<>>, <<"u", ",", "t">>}   \* x-next-cache-tags value
TagArrays == {<<>>, <<<<"t">>>>}           \* explicit tags field
\* entries of every kind carrying tags in the header or in the tags field
S3Entries ==
  {e \in [kind : {"PAGE", "ROUTE", "FETCH"}, headers : HeaderValues, tags : TagArrays,
          html : {"H"}, pageData : {"D"}] : (e.headers = <<>>) # (e.tags = <<>>)}
Contexts == [isAppRouter : BOOLEAN]
TagInputs == {<<"t">>, <<"u">>, NEXT_CACHE_IMPLICIT_TAG_ID \o <<"p">>}
AllowInputs == {<<>>, <<<<"m">>>>, <<<<"x", "m">>>>}

NoOp ==
  [op |-> "init", pageKey |-> <<>>, cacheKey |-> <<>>, tag |-> <<>>,
   allowCacheKeys |-> <<>>, keysToDelete |-> <<>>, failed |-> {}, rejected |-> FALSE,
   existed |-> FALSE]

\* the calls that scan the store and delete in bulk
BulkOps == {"revalidateTag", "deleteAllByKeyMatch"}

\* no call in progress
Idle == [op |-> "none"]

\* ----------------------------------------------------------------- actions
Init ==
  /\ objects = <<>>
  /\ records = <<>>
  /\ pre = <<>>
  /\ last = NoOp
  /\ ops = 0
  /\ statics = [cacheCookies |-> <<>>, cacheQueries |-> <<>>, enableDeviceSplit |-> FALSE]
  /\ handler = NoHandler
  /\ cache = <<>>
  /\ now = 0
  /\ call = Idle

\* set of the object store, for entries and render contexts of the given sets
S3SetStep(entries, contexts) ==
  /\ ops < MaxOps
  /\ \E pageKey \in PageKeys, cacheKey \in CacheKeys, data \in entries, ctx \in contexts :
       objects' = S3SetPuts(pageKey, cacheKey, data, ctx) @@ objects
  /\ last' = [NoOp EXCEPT !.op = "set"]
  /\ pre' = <<>>
  /\ ops' = ops + 1
  /\ UNCHANGED <<records, handlerVars, call>>

S3Set == S3SetStep(S3Entries, Contexts)

\* delete of the object store; storeErrors are the outcomes of the batch
\* delete request that can occur
S3DeleteStep(storeErrors) ==
  /\ ops < MaxOps
  /\ \E pageKey \in PageKeys, cacheKey \in CacheKeys, storeError \in storeErrors :
       LET done == S3DeleteCall(objects, pageKey, cacheKey, storeError)
       IN /\ objects' = done.objects
          /\ last' = [NoOp EXCEPT !.op = "delete", !.pageKey = pageKey, !.cacheKey = cacheKey,
                                  !.failed = IF storeError THEN {1} ELSE {},
                                  !.rejected = done.rejected,
                                  !.existed = S3Get(objects, pageKey, cacheKey) # NoEntry]
  /\ pre' = <<>>
  /\ ops' = ops + 1
  /\ UNCHANGED <<records, handlerVars, call>>

S3RevalidateTag ==
  /\ ops < MaxOps
  /\ \E tag \in TagInputs, allowCacheKeys \in AllowInputs :
       \E keysToDelete \in {revalidateTagKeys(objects, tag, allowCacheKeys)} :
         \E failed \in SUBSET DOMAIN chunkArray(keysToDelete, CHUNK_LIMIT) :
            \E done \in {deleteObjects(objects, keysToDelete, failed)} :
               /\ objects' = done.objects
               /\ last' = [NoOp EXCEPT !.op = "revalidateTag", !.tag = tag,
                                       !.allowCacheKeys = allowCacheKeys,
                                       !.keysToDelete = keysToDelete,
                                       !.failed = failed, !.rejected = done.rejected]
  /\ pre' = objects
  /\ ops' = ops + 1
  /\ UNCHANGED <<records, handlerVars, call>>

S3DeleteAllByKeyMatch ==
  /\ ops < MaxOps
  /\ \E pageKey \in PageKeys, allowCacheKeys \in AllowInputs :
       \E keysToDelete \in {deleteAllByKeyMatchKeys(objects, pageKey, allowCacheKeys)} :
         \E failed \in SUBSET DOMAIN chunkArray(keysToDelete, CHUNK_LIMIT) :
            \E done \in {deleteObjects(objects, keysToDelete, failed)} :
               /\ objects' = done.objects
               /\ last' = [NoOp EXCEPT !.op = "deleteAllByKeyMatch", !.pageKey = pageKey,
                                       !.allowCacheKeys = allowCacheKeys,
                                       !.keysToDelete = keysToDelete,
                                       !.failed = failed, !.rejected = done.rejected]
  /\ pre' = objects
  /\ ops' = ops + 1
  /\ UNCHANGED <<records, handlerVars, call>>

S3Delete == S3DeleteStep({FALSE})

Next ==
  \/ S3Set
  \/ S3Delete
  \/ S3RevalidateTag
  \/ S3DeleteAllByKeyMatch

Spec == Init /\ [][Next]_vars

\* ---------------------------------------- both backends: set, delete, get
\* one entry of each kind
PlainEntries == {e \in S3Entries : e.tags = <<>>}

BackendS3Set == S3SetStep(PlainEntries, Contexts)

BackendS3Delete == S3DeleteStep(BOOLEAN)

\* set of the key-value store, for page keys and entries of the given sets
RedisSetStep(pageKeys, entries) ==
  /\ ops < MaxOps
  /\ \E pageKey \in pageKeys, cacheKey \in CacheKeys, data \in entries :
       records' = RedisSetCall(records, pageKey, cacheKey, data)
  /\ last' = [NoOp EXCEPT !.op = "redisSet"]
  /\ ops' = ops + 1
  /\ UNCHANGED <<objects, pre, handlerVars, call>>

RedisSet == RedisSetStep(PageKeys, PlainEntries)

RedisDelete ==
  /\ ops < MaxOps
  /\ \E pageKey \in PageKeys, cacheKey \in CacheKeys, storeError \in BOOLEAN :
       LET done == RedisDeleteCall(records, pageKey, cacheKey, storeError)
       IN /\ records' = done.records
          /\ last' = [NoOp EXCEPT !.op = "redisDelete", !.pageKey = pageKey,
                                  !.cacheKey = cacheKey,
                                  !.failed = IF storeError THEN {1} ELSE {},
                                  !.rejected = done.rejected,
                                  !.existed = RedisGet(records, pageKey, cacheKey) # NoEntry]
  /\ ops' = ops + 1
  /\ UNCHANGED <<objects, pre, handlerVars, call>>

NextBackends ==
  \/ BackendS3Set
  \/ BackendS3Delete
  \/ RedisSet
  \/ RedisDelete

SpecBackends == Init /\ [][NextBackends]_vars

\* ------------------------------------- set request by request, and get
SetPageKeys == {<<"p">>}
GetFaults == {"none", "NotFound", "NoSuchKey", "NoBody", "AccessDenied", "InternalError"}

\* no call is between its first and its last store request
Quiet ==
  IF call.op = "none" THEN TRUE ELSE call.pending = {} /\ call.settled # "pending"

\* set: every putObject request is issued before the await
SetStart ==
  /\ ops < MaxOps
  /\ Quiet
  /\ \E pageKey \in SetPageKeys, cacheKey \in CacheKeys, data \in PlainEntries, ctx \in Contexts :
       \E requests \in {S3SetPuts(pageKey, cacheKey, data, ctx)} :
         call' = [op |-> "set", pageKey |-> pageKey, cacheKey |-> cacheKey, data |-> data,
                  ctx |-> ctx, requests |-> requests, pending |-> DOMAIN requests,
                  fulfilled |-> {}, failedPuts |-> {}, settled |-> "pending"]
  /\ pre' = objects
  /\ last' = [NoOp EXCEPT !.op = "set"]
  /\ ops' = ops + 1
  /\ UNCHANGED <<objects, records, handlerVars>>

\* the store completes one putObject request
PutObjectFulfilled ==
  /\ call.op = "set"
  /\ \E key \in call.pending :
       /\ objects' = (key :> call.requests[key]) @@ objects
       /\ call' = [call EXCEPT !.pending = @ \ {key}, !.fulfilled = @ \cup {key}]
  /\ UNCHANGED <<records, pre, last, ops, handlerVars>>

\* the store rejects one putObject request
PutObjectRejected ==
  /\ call.op = "set"
  /\ \E key \in call.pending :
       call' = [call EXCEPT !.pending = @ \ {key}, !.failedPuts = @ \cup {key}]
  /\ UNCHANGED <<objects, records, pre, last, ops, handlerVars>>

\* set: the await of Promise.all(promises) settles
SetSettled ==
  /\ call.op = "set"
  /\ call.settled = "pending"
  /\ PromiseAll(call.pending, call.failedPuts) # "pending"
  /\ call' = [call EXCEPT !.settled = PromiseAll(call.pending, call.failedPuts)]
  /\ UNCHANGED <<objects, records, pre, last, ops, handlerVars>>

\* get, under every response of the store
S3GetStep ==
  /\ ops < MaxOps
  /\ Quiet
  /\ \E pageKey \in SetPageKeys, cacheKey \in CacheKeys, fault \in GetFaults :
       LET key == pageKey \o <<"/">> \o cacheKey \o <<".">> \o CacheExtension.JSON
           response == S3GetObject(objects, key, fault)
           got == S3GetCall(response)
       IN last' = [op |-> "get", pageKey |-> pageKey, cacheKey |-> cacheKey,
                   requested |-> key, response |-> response,
                   result |-> got.result, thrown |-> got.thrown]
  /\ call' = Idle
  /\ pre' = <<>>
  /\ ops' = ops + 1
  /\ UNCHANGED <<objects, records, handlerVars>>

NextSet ==
  \/ SetStart
  \/ PutObjectFulfilled
  \/ PutObjectRejected
  \/ SetSettled
  \/ S3GetStep

SpecSet == Init /\ [][NextSet]_vars

\* ------------------- invalidation request by request, with concurrent sets
ScanEntries ==
  {[kind |-> "PAGE", headers |-> <<"u", ",", "t">>, tags |-> <<>>, html |-> "H", pageData |-> "D"],
   [kind |-> "FETCH", headers |-> <<>>, tags |-> <<<<"t">>>>, html |-> "H", pageData |-> "D"],
   [kind |-> "FETCH", headers |-> <<>>, tags |-> <<>>, html |-> "H", pageData |-> "D"]}
ScanTags == {<<"t">>}
ScanAllow == {<<>>, <<<<"m">>>>}

\* locals of revalidateTag / deleteAllByKeyMatch at their first listing request;
\* log, written, late and deleted are history
NewScan(op, tag, pageKey, allowCacheKeys) ==
  [op |-> op, pc |-> "list", tag |-> tag, pageKey |-> pageKey,
   allowCacheKeys |-> allowCacheKeys, nextContinuationToken |-> NoToken,
   contents |-> <<>>, pendingTags |-> {}, matched |-> {}, keysToDelete |-> <<>>,
   chunks |-> <<>>, pendingChunks |-> {}, failed |-> {},
   log |-> <<>>, written |-> {}, late |-> {}, deleted |-> <<>>]

InScan == IF call.op \in BulkOps THEN call.pc \notin {"done", "rejected"} ELSE FALSE

\* the listing page that covers key has been fetched by the call in progress
Covered(c, key) ==
  /\ Len(c.log) > 0
  /\ (c.nextContinuationToken = NoToken \/ ~KeyLess(c.nextContinuationToken, key))

RevalidateTagStart ==
  /\ call.op = "none"
  /\ \E tag \in ScanTags, allowCacheKeys \in ScanAllow :
       call' = NewScan("revalidateTag", tag, <<>>, allowCacheKeys)
  /\ pre' = objects
  /\ UNCHANGED <<objects, records, last, ops, handlerVars>>

DeleteAllByKeyMatchStart ==
  /\ call.op = "none"
  /\ \E pageKey \in SetPageKeys, allowCacheKeys \in ScanAllow :
       call' = NewScan("deleteAllByKeyMatch", <<>>, pageKey, allowCacheKeys)
  /\ pre' = objects
  /\ UNCHANGED <<objects, records, last, ops, handlerVars>>

\* one listObjectsV2 request and the processing of its page up to the first await
ListPage ==
  /\ InScan
  /\ call.pc = "list"
  /\ \E page \in {IF call.op = "revalidateTag"
                     THEN ListObjectsV2(objects, call.nextContinuationToken, <<>>, FALSE)
                     ELSE ListObjectsV2(objects, call.nextContinuationToken,
                                        call.pageKey \o <<"/">>, TRUE)} :
       \E listed \in {[call EXCEPT !.nextContinuationToken = page.NextContinuationToken,
                                   !.contents = page.Contents,
                                   !.log = Append(@, [req |-> "list",
                                                      next |-> page.NextContinuationToken])]},
          candidates \in {TaggingCandidates(page.Contents, call.allowCacheKeys)} :
          call' =
            IF call.op = "revalidateTag"
              THEN IF candidates = {}
                     THEN AfterPage(listed)
                     ELSE [listed EXCEPT !.pc = "tagging", !.pendingTags = candidates,
                                         !.matched = {}]
              ELSE AfterPage([listed EXCEPT !.keysToDelete = @ \o PathMatches(page.Contents)])
  /\ UNCHANGED <<objects, records, pre, last, ops, handlerVars>>

\* the store answers one getObjectTagging request of the page; the requests of
\* a page are outstanding together, the matches are collected in page order
TaggingResponse ==
  /\ InScan
  /\ call.pc = "tagging"
  /\ \E i \in call.pendingTags :
       LET key == call.contents[i]
       IN IF key \notin DOMAIN objects
            THEN call' = [call EXCEPT !.pc = "rejected"]
            ELSE \E matched \in {IF TagIncludes(objects[key].TagSet, call.tag)
                                    THEN call.matched \cup {i} ELSE call.matched} :
                   call' =
                     IF call.pendingTags # {i}
                       THEN [call EXCEPT !.pendingTags = @ \ {i}, !.matched = matched]
                       ELSE AfterPage([call EXCEPT
                                         !.pendingTags = {}, !.matched = matched,
                                         !.keysToDelete = @ \o Pick(call.contents, matched)])
  /\ UNCHANGED <<objects, records, pre, last, ops, handlerVars>>

\* the store executes one batch delete request
ChunkDeleted ==
  /\ InScan
  /\ call.pc = "delete"
  /\ \E i \in call.pendingChunks :
       LET keys == Range(call.chunks[i]) \cap DOMAIN objects
       IN /\ objects' = [k \in DOMAIN objects \ keys |-> objects[k]]
          /\ call' = [call EXCEPT !.pendingChunks = @ \ {i},
                                  !.deleted = [k \in keys |-> objects[k]] @@ @,
                                  !.pc = IF call.pendingChunks = {i} THEN "done" ELSE @]
  /\ UNCHANGED <<records, pre, last, ops, handlerVars>>

\* the store rejects one batch delete request; Promise.allSettled goes on
ChunkRejected ==
  /\ InScan
  /\ call.pc = "delete"
  /\ \E i \in call.pendingChunks :
       call' = [call EXCEPT !.pendingChunks = @ \ {i}, !.failed = @ \cup {i},
                            !.pc = IF call.pendingChunks = {i} THEN "done" ELSE @]
  /\ UNCHANGED <<objects, records, pre, last, ops, handlerVars>>

\* a set of another request, before or while the invalidation runs
ScanSetStep(entries, contexts) ==
  /\ ops < MaxOps
  /\ call.op = "none" \/ InScan
  /\ \E pageKey \in SetPageKeys, cacheKey \in CacheKeys, data \in entries, ctx \in contexts :
       \E puts \in {S3SetPuts(pageKey, cacheKey, data, ctx)} :
         /\ objects' = puts @@ objects
         /\ call' = IF InScan
                      THEN [call EXCEPT !.written = @ \cup DOMAIN puts,
                                        !.late = (@ \ DOMAIN puts)
                                                   \cup {k \in DOMAIN puts : Covered(call, k)}]
                      ELSE call
  /\ ops' = ops + 1
  /\ UNCHANGED <<records, pre, last, handlerVars>>

ScanSet == ScanSetStep(ScanEntries, Contexts)

NextScan ==
  \/ ScanSet
  \/ RevalidateTagStart
  \/ DeleteAllByKeyMatchStart
  \/ ListPage
  \/ TaggingResponse
  \/ ChunkDeleted
  \/ ChunkRejected

SpecScan == Init /\ [][NextScan]_vars

\* ------------------------- key-value deleteAllByKeyMatch request by request
MaxScans == 3      \* scan calls after which the store has returned cursor 0

ScanCursors == {0, 1, 2}     \* cursors the store returns

\* a set before the call
RedisSetBeforeCall ==
  /\ call.op = "none"
  /\ RedisSet

\* deleteAllByKeyMatch(key, cacheKey) up to its first store request
RedisDeleteAllByKeyMatchStart ==
  /\ call.op = "none"
  /\ \E key \in PageKeys, cacheKey \in {<<>>} \cup CacheKeys :
       call' = [op |-> "redisDeleteAllByKeyMatch",
                pc |-> IF cacheKey # <<>> THEN "unlinkOne" ELSE "scan",
                key |-> key, cacheKey |-> cacheKey, cursor |-> 0, keysToDelete |-> <<>>,
                before |-> records, scans |-> <<>>, unlinks |-> <<>>]
  /\ UNCHANGED <<objects, records, pre, last, ops, handlerVars>>

\* the unlink of the single address
RedisUnlinkOne ==
  /\ call.op = "redisDeleteAllByKeyMatch"
  /\ call.pc = "unlinkOne"
  /\ LET keys == <<call.key \o <<"/", "/">> \o call.cacheKey>>
     IN /\ records' = RedisUnlink(records, keys)
        /\ call' = [call EXCEPT !.pc = "done", !.unlinks = Append(@, keys)]
  /\ UNCHANGED <<objects, pre, last, ops, handlerVars>>

\* one scan call: the store returns a cursor and a batch of matching keys; by
\* the MaxScans-th call it has returned cursor 0
RedisScanStep ==
  /\ call.op = "redisDeleteAllByKeyMatch"
  /\ call.pc = "scan"
  /\ Len(call.scans) < MaxScans
  /\ \E batch \in SUBSET RedisMatching(records, RedisMatchPattern(call.key)),
        cursor \in IF Len(call.scans) = MaxScans - 1 THEN {0} ELSE ScanCursors :
       LET keys == SortKeys(batch)
           keysToDelete == call.keysToDelete \o keys
       IN call' = [call EXCEPT
                     !.cursor = cursor,
                     !.keysToDelete = keysToDelete,
                     !.scans = Append(@, [sent |-> call.cursor,
                                          match |-> RedisMatchPattern(call.key),
                                          cursor |-> cursor, keys |-> keys]),
                     !.pc = IF RedisScanAgain(cursor) THEN "scan"
                            ELSE IF RedisUnlinkNeeded(keysToDelete) THEN "unlink"
                            ELSE "done"]
  /\ UNCHANGED <<objects, records, pre, last, ops, handlerVars>>

\* the bulk unlink of everything accumulated
RedisUnlinkAll ==
  /\ call.op = "redisDeleteAllByKeyMatch"
  /\ call.pc = "unlink"
  /\ records' = RedisUnlink(records, call.keysToDelete)
  /\ call' = [call EXCEPT !.pc = "done", !.unlinks = Append(@, call.keysToDelete)]
  /\ UNCHANGED <<objects, pre, last, ops, handlerVars>>

NextRedisScan ==
  \/ RedisSetBeforeCall
  \/ RedisDeleteAllByKeyMatchStart
  \/ RedisUnlinkOne
  \/ RedisScanStep
  \/ RedisUnlinkAll

SpecRedisScan == Init /\ [][NextRedisScan]_vars

\* ------------------------ the scan loops when every store call is answered
\* app-router PAGE entries carrying the tag, and untagged fetch results
LiveEntries == {e \in ScanEntries : e.kind = "PAGE" \/ e.tags = <<>>}

LiveSet == ScanSetStep(LiveEntries, {[isAppRouter |-> TRUE]})

LiveRedisSet ==
  /\ call.op = "none"
  /\ RedisSetStep(SetPageKeys, {e \in PlainEntries : e.kind = "ROUTE"})

NextLive ==
  \/ LiveSet
  \/ RevalidateTagStart
  \/ DeleteAllByKeyMatchStart
  \/ ListPage
  \/ TaggingResponse
  \/ ChunkDeleted
  \/ ChunkRejected
  \/ LiveRedisSet
  \/ RedisDeleteAllByKeyMatchStart
  \/ RedisUnlinkOne
  \/ RedisScanStep
  \/ RedisUnlinkAll

\* every request of the call in progress is answered by the store
StoreAnswers ==
  /\ WF_vars(ListPage)
  /\ WF_vars(TaggingResponse)
  /\ WF_vars(ChunkDeleted \/ ChunkRejected)
  /\ WF_vars(RedisScanStep)
  /\ WF_vars(RedisUnlinkOne)
  /\ WF_vars(RedisUnlinkAll)

SpecLive == Init /\ [][NextLive]_vars /\ StoreAnswers

\* -------------------------------------------- key builder: configuration
MaxAllow == 2      \* names registered per allow-list

Names == {"a", "b"}
FieldValues == {<<>>, <<"1">>, <<"2">>}
Mappings == UNION {[S -> FieldValues] : S \in SUBSET Names}
NoQuery == [present |-> FALSE, parsable |-> FALSE, parsed |-> <<>>]
QueryInputs ==
  {NoQuery, [present |-> TRUE, parsable |-> FALSE, parsed |-> <<>>]}
    \cup {[present |-> TRUE, parsable |-> TRUE, parsed |-> m] : m \in Mappings}
DeviceTypes == {<<>>, <<"mobile">>}
RequestKeys == {<<"k">>, <<"k", "-", "j">>}   \* the keys the framework asks for

addCookie ==
  /\ Len(statics.cacheCookies) < MaxAllow
  /\ \E value \in Names :
       statics' = [statics EXCEPT !.cacheCookies = Append(@, value)]
  /\ last' = [op |-> "addCookie"]
  /\ UNCHANGED <<storeVars, ops, handler, cache, now, call>>

addQuery ==
  /\ Len(statics.cacheQueries) < MaxAllow
  /\ \E value \in Names :
       statics' = [statics EXCEPT !.cacheQueries = Append(@, value)]
  /\ last' = [op |-> "addQuery"]
  /\ UNCHANGED <<storeVars, ops, handler, cache, now, call>>

addDeviceSplit ==
  /\ statics' = [statics EXCEPT !.enableDeviceSplit = TRUE]
  /\ last' = [op |-> "addDeviceSplit"]
  /\ UNCHANGED <<storeVars, ops, handler, cache, now, call>>

\* new CacheHandler(nextOptions): the instance is constructed once, for one request
NewHandler ==
  /\ ~handler.constructed
  /\ \E parsedCookies \in Mappings, query \in QueryInputs, ua \in DeviceTypes :
       /\ handler' = Construct(statics, parsedCookies, query, ua)
       /\ last' = [op |-> "construct", parsedCookies |-> parsedCookies,
                   query |-> query, ua |-> ua]
  /\ UNCHANGED <<storeVars, ops, statics, cache, now, call>>

\* getPageCacheKey(key) on the constructed instance
PageCacheKey ==
  /\ handler.constructed
  /\ \E key \in RequestKeys :
       last' = [op |-> "getPageCacheKey", key |-> key,
                result |-> getPageCacheKey(handler, key)]
  /\ UNCHANGED <<storeVars, ops, statics, handler, cache, now, call>>

NextKey ==
  \/ addCookie
  \/ addQuery
  \/ addDeviceSplit
  \/ NewHandler
  \/ PageCacheKey

SpecKey == Init /\ [][NextKey]_vars

\* ------------------------------------------------ orchestrator: get and set
HandlerKeys == {<<"k">>, <<"j">>}
Revalidates == {NoRevalidate, <<0>>, <<1>>}
Deltas == {1, 999, 1000, 1001}     \* milliseconds between two calls

\* a handler constructed under the default configuration
InitHandler ==
  /\ objects = <<>>
  /\ records = <<>>
  /\ pre = <<>>
  /\ last = [op |-> "construct"]
  /\ ops = 0
  /\ statics = [cacheCookies |-> <<>>, cacheQueries |-> <<>>, enableDeviceSplit |-> FALSE]
  /\ handler = Construct(statics, <<>>, NoQuery, <<>>)
  /\ cache = <<>>
  /\ now = 0
  /\ call = Idle

\* set of an entry written now
HandlerSet ==
  /\ ops < MaxOps
  /\ \E key \in HandlerKeys, revalidate \in Revalidates :
       LET data == [lastModified |-> now, revalidate |-> revalidate, value |-> "V"]
       IN /\ cache' = CacheHandlerSet(cache, handler, key, data)
          /\ last' = [op |-> "set", key |-> key]
  /\ ops' = ops + 1
  /\ UNCHANGED <<storeVars, statics, handler, now, call>>

HandlerGet ==
  /\ ops < MaxOps
  /\ \E key \in HandlerKeys :
       LET got == CacheHandlerGet(cache, handler, key, now)
       IN /\ cache' = got.cache
          /\ last' = [op |-> "get", key |-> key, data |-> got.data,
                      isStaleData |-> got.isStaleData, result |-> got.result,
                      cacheBefore |-> cache, time |-> now]
  /\ ops' = ops + 1
  /\ UNCHANGED <<storeVars, statics, handler, now, call>>

Tick ==
  /\ ops < MaxOps
  /\ \E d \in Deltas : now' = now + d
  /\ last' = [op |-> "tick"]
  /\ ops' = ops + 1
  /\ UNCHANGED <<storeVars, statics, handler, cache, call>>

NextHandler ==
  \/ HandlerSet
  \/ HandlerGet
  \/ Tick

SpecHandler == InitHandler /\ [][NextHandler]_vars

\* ------------------------------------------------- vocabulary of the claims
\* the tag set an entry is invalidated by: the tags header for PAGE and ROUTE
\* entries, the explicit tags field for every other kind
DerivedTags(data) ==
  IF data.kind \in {"PAGE", "ROUTE"}
    THEN IF data.headers = <<>> THEN {} ELSE Range(Split(data.headers, ","))
    ELSE Range(data.tags)

\* the tag values the store holds for an object
CarriedTags(obj) == {obj.TagSet[i].Value : i \in DOMAIN obj.TagSet}

\* a key without its ".json" / ".html" / ".rsc" extension
WithoutExtension(key) == SubSeq(key, 1, Len(key) - 2)

\* ------------------------------------------------------------------- C1
\* C1: after revalidateTag(tag) with an empty allowCacheKeys and no store
\* error, every object written by an entry whose derived tag set contains tag
\* is gone, and every object written by an entry whose derived tag set does not
\* contain tag is still in the bucket, unchanged; nothing else appears.
C1_TagInvalidation ==
  (last.op = "revalidateTag" /\ last.allowCacheKeys = <<>> /\ last.failed = {}) =>
    /\ DOMAIN objects \subseteq DOMAIN pre
    /\ \A key \in DOMAIN pre :
         IF last.tag \in DerivedTags(pre[key].by.data)
           THEN key \notin DOMAIN objects
           ELSE key \in DOMAIN objects /\ objects[key] = pre[key]

C1_Witness ==
  /\ last.op = "revalidateTag" /\ last.allowCacheKeys = <<>> /\ last.failed = {}
  /\ \E key \in DOMAIN pre :
       /\ pre[key].by.data.kind = "PAGE"
       /\ last.tag \in DerivedTags(pre[key].by.data)
       /\ key \notin DOMAIN objects
  /\ \E key \in DOMAIN pre :
       /\ last.tag \notin DerivedTags(pre[key].by.data)
       /\ key \in DOMAIN objects

\* ------------------------------------------------------------------- C2
\* C2 (as claimed): revalidateTag with a non-empty allowCacheKeys deletes an
\* object carrying the tag when its de-extensioned key ends with one of the
\* allowCacheKeys, and keeps an object carrying the tag when it matches none.
C2_AllowKeysRestrict ==
  (last.op = "revalidateTag" /\ last.allowCacheKeys # <<>> /\ last.failed = {}) =>
    \A key \in DOMAIN pre :
      last.tag \in CarriedTags(pre[key]) =>
        IF \E i \in DOMAIN last.allowCacheKeys :
             EndsWith(WithoutExtension(key), last.allowCacheKeys[i])
          THEN key \notin DOMAIN objects
          ELSE key \in DOMAIN objects

\* ------------------------------------------------------------------- C3
\* C3 (as claimed): deleteAllByKeyMatch with a non-empty allowCacheKeys keeps
\* every object of an entry whose cache key is not one of allowCacheKeys, and
\* every object outside the pageKey/ prefix.
C3_SiblingsKept ==
  (last.op = "deleteAllByKeyMatch" /\ last.allowCacheKeys # <<>>) =>
    \A key \in DOMAIN pre :
      (\/ pre[key].by.cacheKey \notin Range(last.allowCacheKeys)
       \/ ~StartsWith(key, last.pageKey \o <<"/">>)) =>
        key \in DOMAIN objects /\ objects[key] = pre[key]

\* ------------------------------------------------------------------- C4
\* C4 (as claimed): after deleteAllByKeyMatch with a non-empty allowCacheKeys
\* and no store error, none of pageKey/k.json, pageKey/k.html, pageKey/k.rsc
\* exists for any k of allowCacheKeys.
C4_AllRepresentationsGone ==
  (last.op = "deleteAllByKeyMatch" /\ last.allowCacheKeys # <<>> /\ last.failed = {}) =>
    \A i \in DOMAIN last.allowCacheKeys, ext \in Range(PAGE_CACHE_EXTENSIONS) :
      (last.pageKey \o <<"/">> \o last.allowCacheKeys[i] \o <<".">> \o ext)
        \notin DOMAIN objects

\* ------------------------------------------------------------------- C5
\* C5 (as claimed): revalidateTag with a tag that starts with the implicit
\* path marker leaves the bucket exactly as deleteAllByKeyMatch on the rest of
\* the tag would (no store error).
C5_PathFormDelegates ==
  (/\ last.op = "revalidateTag"
   /\ StartsWith(last.tag, NEXT_CACHE_IMPLICIT_TAG_ID)
   /\ last.failed = {}) =>
    LET path == SubSeq(last.tag, Len(NEXT_CACHE_IMPLICIT_TAG_ID) + 1, Len(last.tag))
        keys == deleteAllByKeyMatchKeys(pre, path, last.allowCacheKeys)
    IN objects = [k \in DOMAIN pre \ Range(keys) |-> pre[k]]

\* ------------------------------------------------------------------- C10
\* C10: in revalidateTag and deleteAllByKeyMatch the keys to delete go out in
\* consecutive chunks of at most CHUNK_LIMIT keys; whichever chunks the store
\* rejects, the keys of every other chunk are deleted, the keys of the rejected
\* chunks stay, and the call resolves without error.
C10_ChunkFailureTolerated ==
  (last.op \in BulkOps) =>
    LET n == Len(last.keysToDelete)
        ChunkOf(i) == ((i - 1) \div CHUNK_LIMIT) + 1
    IN /\ ~last.rejected
       /\ \A i \in 1..n :
            IF ChunkOf(i) \in last.failed
              THEN /\ last.keysToDelete[i] \in DOMAIN objects
                   /\ objects[last.keysToDelete[i]] = pre[last.keysToDelete[i]]
              ELSE last.keysToDelete[i] \notin DOMAIN objects

C10_Witness ==
  /\ last.op \in BulkOps
  /\ Len(last.keysToDelete) > CHUNK_LIMIT
  /\ last.failed # {}
  /\ \E i \in DOMAIN last.keysToDelete : last.keysToDelete[i] \notin DOMAIN objects
  /\ \E i \in DOMAIN last.keysToDelete : last.keysToDelete[i] \in DOMAIN objects
  /\ ~last.rejected

\* ------------------------------------------------------------------- C6
\* C6: on both backends, right after a delete(pageKey, cacheKey) that did not
\* reject, get(pageKey, cacheKey) returns null, whatever was set before; and a
\* delete rejects only when the store rejects the request, so deleting a key
\* that was never set completes without error.
C6_DeleteThenGetNull ==
  /\ (last.op = "delete" /\ ~last.rejected) =>
       S3Get(objects, last.pageKey, last.cacheKey) = NoEntry
  /\ (last.op = "redisDelete" /\ ~last.rejected) =>
       RedisGet(records, last.pageKey, last.cacheKey) = NoEntry
  /\ (last.op \in {"delete", "redisDelete"} /\ last.failed = {}) => ~last.rejected

C6_Witness ==
  /\ last.op = "delete"
  /\ last.existed
  /\ ~last.rejected
  /\ S3Get(objects, last.pageKey, last.cacheKey) = NoEntry
  /\ records # <<>>

\* ------------------------------------------------------------------- C7
\* the pairs name=value of all names of the allow-list that the mapping gives
\* a non-empty value, in allow-list order, joined by "-" and wrapped in prefix(..)
SegmentOfAll(prefix, allowList, data) ==
  LET present == SelectSeq(allowList, LAMBDA name : ~Falsy(data, name))
      pairs == [i \in DOMAIN present |-> <<present[i], "=">> \o data[present[i]]]
  IN IF Len(present) = 0 THEN <<>>
     ELSE <<prefix, "(">> \o Join(pairs, "-") \o <<")">>

Distinct(list) == Cardinality(Range(list)) = Len(list)

\* C7 (as claimed): the cookie segment and the query segment of a new handler
\* list every allow-listed name that has a non-empty value (allow-lists that
\* name no cookie or parameter twice).
C7_SegmentListsAll ==
  (/\ last.op = "construct"
   /\ Distinct(statics.cacheCookies)
   /\ Distinct(statics.cacheQueries)) =>
    /\ handler.cookieCacheKey = SegmentOfAll("cookie", statics.cacheCookies, last.parsedCookies)
    /\ (last.query.present /\ last.query.parsable) =>
         handler.queryCacheKey = SegmentOfAll("query", statics.cacheQueries, last.query.parsed)

\* ------------------------------------------------------------------- C8
\* C8 (as claimed): the staleness verdict of get is false for an entry without
\* revalidate, and for an entry with revalidate (0 included) it is true exactly
\* when now > lastModified + revalidate * 1000.
C8_StaleIffPastDeadline ==
  (last.op = "get" /\ last.data # NoEntry) =>
    LET entry == last.data[1]
    IN IF entry.revalidate = NoRevalidate
         THEN ~last.isStaleData
         ELSE last.isStaleData <=>
                (last.time > entry.lastModified + entry.revalidate[1] * 1000)

\* ------------------------------------------------------------------- C9
\* C9: CacheHandler.get returns null when the strategy has no entry or the
\* staleness policy calls the entry stale, returns the strategy's entry
\* otherwise, and leaves the strategy's contents as they were.
C9_GetIsReadOnly ==
  (last.op = "get") =>
    LET stored == StrategyGet(last.cacheBefore, getPageCacheKey(handler, last.key))
    IN /\ last.result =
            IF stored = NoEntry \/ checkIsStaleCache(stored, last.time)
              THEN NoEntry ELSE stored
       /\ cache = last.cacheBefore

C9_Witness ==
  /\ last.op = "get"
  /\ last.data # NoEntry
  /\ last.isStaleData
  /\ last.result = NoEntry
  /\ StrategyGet(cache, getPageCacheKey(handler, last.key)) = last.data

\* ------------------------------------------------------------------- C12
\* C12: getPageCacheKey(key) is key followed by "-" and the component for each
\* of device, cookie segment and query segment that is non-empty, in that
\* order; with all three empty or absent it is key itself, and an empty
\* component contributes no "-".
C12_CompositeJoin ==
  (last.op = "getPageCacheKey") =>
    LET Opt(c) == IF c = <<>> THEN <<>> ELSE <<"-">> \o c
    IN /\ last.result = last.key \o Opt(handler.device) \o Opt(handler.cookieCacheKey)
                                   \o Opt(handler.queryCacheKey)
       /\ (handler.device = <<>> /\ handler.cookieCacheKey = <<>>
             /\ handler.queryCacheKey = <<>>) => last.result = last.key

C12_Witness ==
  /\ last.op = "getPageCacheKey"
  /\ handler.device = <<>>
  /\ handler.cookieCacheKey # <<>>
  /\ handler.queryCacheKey = <<>>
  /\ last.result = last.key \o <<"-">> \o handler.cookieCacheKey

\* ------------------------------------------------------------------- C13
\* the value a cookie mapping gives a name, absent read as empty
CookieValue(m, name) == IF name \in DOMAIN m THEN m[name] ELSE <<>>

\* C13: the cookie segment of a new handler is the segment of every cookie
\* mapping that agrees with the request's on the allow-listed names (absent
\* and empty being the same); no name outside the allow-list occurs in it; and
\* it is empty when no allow-listed cookie has a non-empty value.
C13_CookieSegmentAllowListOnly ==
  (last.op = "construct") =>
    LET allowed == Range(statics.cacheCookies)
    IN /\ \A other \in Mappings :
            (\A name \in allowed :
               CookieValue(other, name) = CookieValue(last.parsedCookies, name)) =>
              buildCookiesCacheKey(statics.cacheCookies, other) = handler.cookieCacheKey
       /\ \A name \in Names \ allowed : name \notin Range(handler.cookieCacheKey)
       /\ (\A name \in allowed : CookieValue(last.parsedCookies, name) = <<>>) =>
            handler.cookieCacheKey = <<>>

C13_Witness ==
  /\ last.op = "construct"
  /\ statics.cacheCookies = <<"a">>
  /\ CookieValue(last.parsedCookies, "a") # <<>>
  /\ CookieValue(last.parsedCookies, "b") # <<>>
  /\ handler.cookieCacheKey = <<"cookie", "(", "a", "=">> \o last.parsedCookies["a"] \o <<")">>

\* ------------------------------------------------------------------- C11
\* C11: set resolves only when every putObject request it issued has been
\* completed by the store and its object is in the bucket; once a request has
\* been rejected the call never resolves but rejects; and all along the bucket
\* is the bucket at the start of the call overlaid with the objects of the
\* requests completed so far: nothing is deleted or written in compensation.
C11_SetAllOrError ==
  (call.op = "set") =>
    /\ (call.settled = "resolved") =>
         /\ call.pending = {}
         /\ call.failedPuts = {}
         /\ \A key \in DOMAIN call.requests :
              key \in DOMAIN objects /\ objects[key] = call.requests[key]
    /\ (call.failedPuts # {}) => call.settled # "resolved"
    /\ (call.settled = "rejected") => call.failedPuts # {}
    /\ objects = [key \in call.fulfilled |-> call.requests[key]] @@ pre

C11_Witness ==
  /\ call.op = "set"
  /\ call.settled = "rejected"
  /\ call.pending = {}
  /\ call.failedPuts # {}
  /\ \E key \in call.fulfilled : key \notin DOMAIN pre /\ key \in DOMAIN objects

\* ------------------------------------------------------------------- C14
\* C14: get returns null without error when the store answers NotFound or
\* NoSuchKey for the .json object or answers without a body; every other store
\* error is thrown to the caller, with no value returned.
C14_GetNotFoundIsNull ==
  (last.op = "get") =>
    /\ last.requested = last.pageKey \o <<"/">> \o last.cacheKey \o <<".", "json">>
    /\ (\/ last.response.error \in {"NotFound", "NoSuchKey"}
        \/ (last.response.error = "" /\ last.response.Body = <<>>)) =>
         (last.result = NoEntry /\ last.thrown = "")
    /\ (last.response.error \notin {"", "NotFound", "NoSuchKey"}) =>
         (last.thrown = last.response.error /\ last.result = NoEntry)

C14_Witness ==
  /\ last.op = "get"
  /\ last.requested \in DOMAIN objects
  /\ last.response.error = "AccessDenied"
  /\ last.thrown = "AccessDenied"

\* ------------------------------------------------------------------- C15
\* the keys set has to write for an entry at pageKey/cacheKey
RequiredKeys(pageKey, cacheKey, data, ctx) ==
  {pageKey \o <<"/">> \o cacheKey \o <<".", "json">>}
    \cup (IF data.kind = "PAGE"
           THEN {pageKey \o <<"/">> \o cacheKey \o <<".", "html">>} ELSE {})
    \cup (IF data.kind = "PAGE" /\ ctx.isAppRouter
           THEN {pageKey \o <<"/">> \o cacheKey \o <<".", "rsc">>} ELSE {})

\* C15: the putObject requests of a set are one per required key (.json always,
\* .html for PAGE, .rsc for PAGE under app-router rendering), and whatever the
\* store does with them no object at any other key appears or changes.
C15_SetWritesExactly ==
  (call.op = "set") =>
    /\ DOMAIN call.requests = RequiredKeys(call.pageKey, call.cacheKey, call.data, call.ctx)
    /\ call.fulfilled \subseteq DOMAIN call.requests
    /\ \A key \in (DOMAIN objects \cup DOMAIN pre) \ call.fulfilled :
         key \in DOMAIN objects /\ key \in DOMAIN pre /\ objects[key] = pre[key]

C15_Witness ==
  /\ call.op = "set"
  /\ call.settled = "resolved"
  /\ call.data.kind = "PAGE"
  /\ ~call.ctx.isAppRouter
  /\ pre # <<>>
  /\ DOMAIN objects \ DOMAIN pre =
       {call.pageKey \o <<"/">> \o call.cacheKey \o <<".">> \o ext :
          ext \in {<<"json">>, <<"html">>}}

\* ------------------------------------------------------------------- C16
\* C16 (as claimed): after a set has resolved, the objects under
\* pageKey/cacheKey are exactly those required by the entry and context of that
\* set, whatever was set at the address before.
C16_OverwriteLeavesOnlyLatest ==
  (call.op = "set" /\ call.settled = "resolved") =>
    {key \in DOMAIN objects :
       StartsWith(key, call.pageKey \o <<"/">> \o call.cacheKey \o <<".">>)}
      = RequiredKeys(call.pageKey, call.cacheKey, call.data, call.ctx)

\* ------------------------------------------------------------------- C17
\* C17: in revalidateTag and deleteAllByKeyMatch every batch delete request
\* comes after a listing request that returned no continuation token, no
\* listing request follows a delete request, and the keys sent for deletion are
\* those accumulated over all the pages listed.
C17_DeleteAfterLastPage ==
  (call.op \in BulkOps) =>
    /\ \A i \in DOMAIN call.log :
         (call.log[i].req = "delete") =>
           /\ \E j \in 1..(i - 1) :
                call.log[j].req = "list" /\ call.log[j].next = NoToken
           /\ \A j \in (i + 1)..Len(call.log) : call.log[j].req = "delete"
    /\ (call.pc \in {"delete", "done"}) =>
         /\ call.nextContinuationToken = NoToken
         /\ call.chunks = chunkArray(FinalKeys(call), CHUNK_LIMIT)
    /\ (call.pc \in {"list", "tagging"}) =>
         (call.chunks = <<>> /\ call.deleted = <<>>)

C17_Witness ==
  /\ call.op \in BulkOps
  /\ call.pc = "done"
  /\ Cardinality({i \in DOMAIN call.log : call.log[i].req = "list"}) >= 2
  /\ Cardinality({i \in DOMAIN call.log : call.log[i].req = "delete"}) >= 2
  /\ \E i \in DOMAIN call.keysToDelete :
       ~Covered([call EXCEPT !.nextContinuationToken = call.log[1].next],
                call.keysToDelete[i])
  /\ call.deleted # <<>>

\* ------------------------------------------------------------------- C20
\* C20: revalidateTag is not atomic with respect to a concurrent set.  When it
\* has resolved (empty allow-list, no chunk rejected), an object that carries
\* the tag is in the bucket only if a set wrote it after the listing page
\* covering its key had been fetched, and an object that did not carry the tag
\* was deleted only if a set wrote it during the call over a key recorded as
\* matching; the witness is a call in which both have happened.
C20_NonAtomicOnlyByConcurrentSet ==
  (/\ call.op = "revalidateTag"
   /\ call.pc = "done"
   /\ call.allowCacheKeys = <<>>
   /\ call.failed = {}) =>
    /\ \A key \in DOMAIN objects :
         (call.tag \in CarriedTags(objects[key])) => key \in call.late
    /\ \A key \in DOMAIN call.deleted :
         (call.tag \notin CarriedTags(call.deleted[key])) =>
           (key \in call.written /\ key \in Range(call.keysToDelete))

C20_Witness ==
  /\ call.op = "revalidateTag"
  /\ call.pc = "done"
  /\ call.failed = {}
  /\ \E key \in DOMAIN objects :
       /\ call.tag \in CarriedTags(objects[key])
       /\ key \in call.late
  /\ \E key \in DOMAIN call.deleted :
       /\ call.tag \notin CarriedTags(call.deleted[key])
       /\ call.tag \in CarriedTags(pre[key])
       /\ key \in Range(call.keysToDelete)
       /\ key \in call.written

\* ------------------------------------------------------------------- C18
\* all the keys the scan calls returned, in order
RECURSIVE ScannedKeys(_)
ScannedKeys(scans) ==
  IF Len(scans) = 0 THEN <<>> ELSE scans[1].keys \o ScannedKeys(Tail(scans))

\* C18: key-value deleteAllByKeyMatch(key, cacheKey).  With a non-empty
\* cacheKey it scans nothing and unlinks the one address key//cacheKey, every
\* other record staying as it was.  With an empty cacheKey the first scan is
\* sent cursor 0 and pattern key//*, every further scan is sent the cursor
\* the previous one returned, which was not 0, the scanning ends with the
\* first returned cursor 0, and then there is one unlink of all the keys of
\* all batches, or no unlink when the batches held no key.
C18_RedisDeleteAllByKeyMatch ==
  (call.op = "redisDeleteAllByKeyMatch") =>
    LET n == Len(call.scans)
        all == ScannedKeys(call.scans)
        address == call.key \o <<"/", "/">> \o call.cacheKey
        done == call.pc = "done"
    IN IF call.cacheKey # <<>>
         THEN /\ n = 0
              /\ call.unlinks = IF done THEN <<<<address>>>> ELSE <<>>
              /\ records = IF done
                             THEN [a \in DOMAIN call.before \ {address} |-> call.before[a]]
                             ELSE call.before
         ELSE /\ \A i \in 1..n :
                   /\ call.scans[i].match = call.key \o <<"/", "/", "*">>
                   /\ call.scans[i].sent = IF i = 1 THEN 0 ELSE call.scans[i - 1].cursor
                   /\ (i < n) => call.scans[i].cursor # 0
              /\ (call.pc = "scan") => (n = 0 \/ call.scans[n].cursor # 0)
              /\ (call.pc # "scan") => (n > 0 /\ call.scans[n].cursor = 0)
              /\ call.unlinks = IF done /\ all # <<>> THEN <<all>> ELSE <<>>
              /\ (call.pc = "unlink") => all # <<>>
              /\ records = IF done
                             THEN [a \in DOMAIN call.before \ Range(all) |-> call.before[a]]
                             ELSE call.before

C18_Witness ==
  /\ call.op = "redisDeleteAllByKeyMatch"
  /\ call.pc = "done"
  /\ call.cacheKey = <<>>
  /\ Len(call.scans) >= 2
  /\ call.scans[1].keys # <<>>
  /\ call.scans[2].keys # <<>>
  /\ Len(call.unlinks) = 1
  /\ DOMAIN records # DOMAIN call.before
  /\ records # <<>>

\* ------------------------------------------------------------------- C19
ScanOps == BulkOps \cup {"redisDeleteAllByKeyMatch"}

\* no listing request follows the one answered without a continuation token,
\* no scan call follows the one answered with cursor 0
NoRequestAfterLast ==
  /\ (call.op \in BulkOps) =>
       \A i \in DOMAIN call.log : \A j \in (i + 1)..Len(call.log) :
         (call.log[i].req = "list" /\ call.log[i].next = NoToken) => call.log[j].req # "list"
  /\ (call.op = "redisDeleteAllByKeyMatch") =>
       \A i \in DOMAIN call.scans : (call.scans[i].cursor = 0) => i = Len(call.scans)

\* C19: when the store answers every request, and answers a scan with cursor 0
\* by the MaxScans-th scan call, every revalidateTag and deleteAllByKeyMatch of
\* either backend that has started completes; and the loop asks for no page
\* after the first page without a token or the first cursor 0.
C19_ScanLoopsTerminate ==
  /\ (call.op \in ScanOps) ~> (call.op \in ScanOps /\ call.pc = "done")
  /\ []NoRequestAfterLast

C19_Witness ==
  /\ call.op = "redisDeleteAllByKeyMatch"
  /\ call.pc = "done"
  /\ Len(call.scans) = MaxScans
  /\ call.scans[1].cursor # 0
  /\ call.scans[MaxScans].cursor = 0

====
